---- MODULE Spec2Model ----
(***************************************************************************)
(* The manifest-pull interceptor chain of src/ui/proxy/interceptors.go:    *)
(* urlHandler -> contentTrustHandler -> vulnerableHandler -> funnelHandler *)
(* -> registry backend, run by concurrent requests that share the          *)
(* package-level recorder pointer `rec`.                                   *)
(*                                                                         *)
(* Strings that the code parses are sequences of one-character strings.    *)
(***************************************************************************)
EXTENDS Integers, Sequences, FiniteSets, TLC

(***************************************************************************)
(* Bounds of the model.                                                    *)
(***************************************************************************)
\* Number of requests that can be in flight at once (goroutines of net/http).
NReq == 2
\* Longest list of signed targets the trust subsystem answers with.
MaxTargets == 2

Reqs == 1..NReq

(***************************************************************************)
(* Characters and character classes of manifestURLPattern.                 *)
(***************************************************************************)
LowerChars ==
    {"a", "b", "c", "d", "e", "f", "g", "h", "i", "j", "k", "l", "m",
     "n", "o", "p", "q", "r", "s", "t", "u", "v", "w", "x", "y", "z"}

UpperChars ==
    {"A", "B", "C", "D", "E", "F", "G", "H", "I", "J", "K", "L", "M",
     "N", "O", "P", "Q", "R", "S", "T", "U", "V", "W", "X", "Y", "Z"}

DigitChars == {"0", "1", "2", "3", "4", "5", "6", "7", "8", "9"}

\* [a-z0-9]
AlnumChars == LowerChars \cup DigitChars

\* [._-]
SepChars == {".", "_", "-"}

\* \w
WordChars == LowerChars \cup UpperChars \cup DigitChars \cup {"_"}

\* [\w.:-]
RefChars == WordChars \cup {".", ":", "-"}

\* {0,127}: the reference is at most 1 + 127 characters long.
MaxRefTail == 127

V2Prefix == <<"/", "v", "2", "/">>

ManifestsInfix == <<"m", "a", "n", "i", "f", "e", "s", "t", "s", "/">>

RegistryProxyPrefix ==
    <<"/", "r", "e", "g", "i", "s", "t", "r", "y", "p", "r", "o", "x", "y">>

(***************************************************************************)
(* String helpers (package strings).                                       *)
(***************************************************************************)
\* Does p occur in s starting at position i (1-based)?
HasPrefixAt(s, i, p) ==
    /\ i + Len(p) - 1 <= Len(s)
    /\ \A k \in 1..Len(p) : s[i + k - 1] = p[k]

\* strings.TrimPrefix
TrimPrefix(s, p) ==
    IF HasPrefixAt(s, 1, p) THEN SubSeq(s, Len(p) + 1, Len(s)) ELSE s

\* strings.TrimSuffix
TrimSuffix(s, p) ==
    IF Len(p) <= Len(s) /\ HasPrefixAt(s, Len(s) - Len(p) + 1, p)
    THEN SubSeq(s, 1, Len(s) - Len(p))
    ELSE s

\* Position of the first "/" of s, 0 if there is none.
IndexSlash(s) ==
    IF \E i \in 1..Len(s) : s[i] = "/"
    THEN CHOOSE i \in 1..Len(s) : s[i] = "/" /\ \A j \in 1..(i - 1) : s[j] # "/"
    ELSE 0

\* strings.SplitN(s, "/", 2)
SplitN2(s) ==
    IF IndexSlash(s) = 0
    THEN <<s>>
    ELSE <<SubSeq(s, 1, IndexSlash(s) - 1), SubSeq(s, IndexSlash(s) + 1, Len(s))>>

(***************************************************************************)
(* manifestURLPattern, matched the way regexp.FindStringSubmatch does      *)
(* (leftmost match, greedy repetitions with backtracking).                 *)
(***************************************************************************)
\* First position at or after i whose character is not in class.
RECURSIVE RunEnd(_, _, _)
RunEnd(s, i, class) ==
    IF i <= Len(s) /\ s[i] \in class THEN RunEnd(s, i + 1, class) ELSE i

\* One iteration of (?:[a-z0-9]+(?:[._-][a-z0-9]+)*/) from position i: the
\* position after its closing "/", or 0 when no segment starts at i.
RECURSIVE SegEnd(_, _)
SegEnd(s, i) ==
    LET j == RunEnd(s, i, AlnumChars)
    IN  IF j = i \/ j > Len(s) THEN 0
        ELSE IF s[j] = "/" THEN j + 1
        ELSE IF s[j] \in SepChars THEN SegEnd(s, j + 1)
        ELSE 0

\* Every position where one or more segments starting at i can end.
RECURSIVE SegEnds(_, _)
SegEnds(s, i) ==
    LET e == SegEnd(s, i)
    IN  IF e = 0 THEN {} ELSE {e} \cup SegEnds(s, e)

\* Can "manifests/" and the first character of a reference follow at e?
RefStartsAfter(s, e) ==
    /\ HasPrefixAt(s, e, ManifestsInfix)
    /\ e + Len(ManifestsInfix) <= Len(s)
    /\ s[e + Len(ManifestsInfix)] \in WordChars

Min2(a, b) == IF a <= b THEN a ELSE b

\* re.FindStringSubmatch(path): <<whole, group 1, group 2>>, or <<>> (nil).
FindStringSubmatch(s) ==
    LET ends == IF HasPrefixAt(s, 1, V2Prefix)
                THEN {e \in SegEnds(s, Len(V2Prefix) + 1) : RefStartsAfter(s, e)}
                ELSE {}
    IN  IF ends = {} THEN <<>>
        ELSE LET e  == CHOOSE x \in ends : \A y \in ends : y <= x
                 r  == e + Len(ManifestsInfix)
                 re == Min2(RunEnd(s, r + 1, RefChars), r + 1 + MaxRefTail)
             IN  <<SubSeq(s, 1, re - 1),
                   SubSeq(s, Len(V2Prefix) + 1, e - 1),
                   SubSeq(s, r, re - 1)>>

\* MatchPullManifest without its test of the method.
MatchPullManifestAnyMethod(req) ==
    LET s == FindStringSubmatch(req.Path)
    IN  IF Len(s) = 3
        THEN [flag |-> TRUE, repository |-> TrimSuffix(s[2], <<"/">>), tag |-> s[3]]
        ELSE [flag |-> FALSE, repository |-> <<>>, tag |-> <<>>]

\* MatchPullManifest(req)
MatchPullManifest(req) ==
    IF req.Method # "GET"
    THEN [flag |-> FALSE, repository |-> <<>>, tag |-> <<>>]
    ELSE LET s == FindStringSubmatch(req.Path)
         IN  IF Len(s) = 3
             THEN [flag |-> TRUE, repository |-> TrimSuffix(s[2], <<"/">>), tag |-> s[3]]
             ELSE [flag |-> FALSE, repository |-> <<>>, tag |-> <<>>]

(***************************************************************************)
(* Severities (models.Severity, clair.ParseClairSev).                      *)
(***************************************************************************)
SevUnknown == 1
SevNegligible == 2
SevLow == 3
SevMedium == 4
SevHigh == 5
SevCritical == 6

\* clair.ParseClairSev: the severity a stored setting names; Unknown for
\* anything it does not recognise.
ParseClairSev(str) ==
    CASE str = "negligible" -> SevNegligible
      [] str = "low"        -> SevLow
      [] str = "medium"     -> SevMedium
      [] str = "high"       -> SevHigh
      [] str = "critical"   -> SevCritical
      [] OTHER              -> SevUnknown

\* models.Severity.String, as %q prints it.
SeverityString(sev) ==
    CASE sev = SevNegligible -> "negligible"
      [] sev = SevLow        -> "low"
      [] sev = SevMedium     -> "medium"
      [] sev = SevHigh       -> "high"
      [] sev = SevCritical   -> "critical"
      [] OTHER               -> "unknown"

(***************************************************************************)
(* HTTP status codes (package net/http).                                   *)
(***************************************************************************)
StatusOK == 200
StatusBadRequest == 400
StatusNotFound == 404
StatusPreconditionFailed == 412
StatusInternalServerError == 500

(***************************************************************************)
(* Headers are multimaps kept as sets of <<key, value>> pairs.             *)
(***************************************************************************)
HeaderKeys(h) == {p[1] : p \in h}

\* Header.Get: the value stored under key, "" when there is none.
HeaderGet(h, key) ==
    IF key \in HeaderKeys(h) THEN (CHOOSE p \in h : p[1] = key)[2] ELSE ""

\* Header.Set
HeaderSet(h, key, value) == {p \in h : p[1] # key} \cup {<<key, value>>}

\* for k, v := range src { dst[k] = v }
HeaderCopy(dst, src) == {p \in dst : p[1] \notin HeaderKeys(src)} \cup src

DigestHeader == "Docker-Content-Digest"

(***************************************************************************)
(* Response bodies are sequences of chunks.  A chunk is either raw bytes   *)
(* of the backend or the JSON text that marshalError produced.             *)
(***************************************************************************)
RawChunk(text) ==
    [json |-> FALSE, Code |-> 0, Message |-> <<text>>, Details |-> <<text>>]

\* marshalError(msg, statusCode): the JSONError {Code, Message, Details}.
marshalError(msg, statusCode) ==
    [json |-> TRUE, Code |-> statusCode, Message |-> msg, Details |-> msg]

\* A ResponseWriter that nothing has written to.
NoResp == [code |-> 0, header |-> {}, body |-> <<>>, writes |-> 0]

\* http.Error(rw, error, code)
HttpError(rw, error, code) ==
    [code   |-> IF rw.writes = 0 THEN code ELSE rw.code,
     header |-> HeaderSet(HeaderSet(rw.header, "Content-Type", "text/plain; charset=utf-8"),
                          "X-Content-Type-Options", "nosniff"),
     body   |-> Append(rw.body, error),
     writes |-> rw.writes + 1]

\* httptest.NewRecorder()
NewRecorder == [Code |-> StatusOK, wroteHeader |-> FALSE, HeaderMap |-> {}, Body |-> <<>>]

\* rec.Result().StatusCode
ResultStatusCode(recorder) == recorder.Code

\* copyResp(rec, rw)
copyResp(recorder, rw) ==
    [code   |-> IF rw.writes = 0 THEN ResultStatusCode(recorder) ELSE rw.code,
     header |-> HeaderCopy(rw.header, recorder.HeaderMap),
     body   |-> rw.body \o recorder.Body,
     writes |-> rw.writes + 1]

(***************************************************************************)
(* The registry backend: what it can answer to one request.                *)
(***************************************************************************)
Digests == {"sha256:d1", "sha256:d2"}

BackendResponses ==
    {[code   |-> StatusOK,
      header |-> {<<DigestHeader, d>>, <<"Content-Type", "application/json">>},
      body   |-> <<RawChunk(d)>>] : d \in Digests}
    \cup
    {[code   |-> StatusNotFound,
      header |-> {<<"Content-Type", "application/json">>},
      body   |-> <<RawChunk("MANIFEST_UNKNOWN")>>]}

NoBackendResp == [code |-> 0, header |-> {}, body |-> <<>>]

\* The backend sets its headers and calls WriteHeader on a recorder.
RecorderWriteHeader(recorder, resp) ==
    [recorder EXCEPT
       !.HeaderMap   = HeaderCopy(@, resp.header),
       !.Code        = IF recorder.wroteHeader THEN @ ELSE resp.code,
       !.wroteHeader = TRUE]

\* The backend writes its body to a recorder.
RecorderWrite(recorder, resp) == [recorder EXCEPT !.Body = @ \o resp.body]

\* The backend sets its headers and calls WriteHeader on the client's writer.
ClientWriteHeader(rw, resp) ==
    [rw EXCEPT
       !.header = HeaderCopy(@, resp.header),
       !.code   = IF rw.writes = 0 THEN resp.code ELSE @,
       !.writes = @ + 1]

\* The backend writes its body to the client's writer.
ClientWrite(rw, resp) == [rw EXCEPT !.body = @ \o resp.body]

(***************************************************************************)
(* The policy checkers (policyChecker, envPolicyChecker, pmsPolicyChecker).*)
(***************************************************************************)
\* Values a stored or exported severity setting takes in the model.
SeverityStrings == {"", "medium"}

\* What os.Getenv can return for the three variables envPolicyChecker reads.
EnvSettings ==
    [PROJECT_CONTENT_TRUST : {"", "1"},
     PROJECT_VULNERABLE    : {"", "1"},
     PROJECT_SEVERITY      : SeverityStrings]

\* What pc.pm.Get(name) can return: an error, or the project's settings.
ProjectAnswers ==
    [err                                        : {FALSE},
     EnableContentTrust                         : BOOLEAN,
     PreventVulnerableImagesFromRunning         : BOOLEAN,
     PreventVulnerableImagesFromRunningSeverity : SeverityStrings]
    \cup
    {[err                                        |-> TRUE,
      EnableContentTrust                         |-> FALSE,
      PreventVulnerableImagesFromRunning         |-> FALSE,
      PreventVulnerableImagesFromRunningSeverity |-> ""]}

\* envPolicyChecker.contentTrustEnabled
envContentTrustEnabled(env) == env.PROJECT_CONTENT_TRUST = "1"

\* envPolicyChecker.vulnerablePolicy
envVulnerablePolicy(env) ==
    [enabled  |-> env.PROJECT_VULNERABLE = "1",
     severity |-> ParseClairSev(env.PROJECT_SEVERITY)]

\* pmsPolicyChecker.contentTrustEnabled
pmsContentTrustEnabled(project) ==
    IF project.err THEN TRUE ELSE project.EnableContentTrust

\* pmsPolicyChecker.vulnerablePolicy that gives up enforcement when the
\* lookup fails.
pmsVulnerablePolicyFailOpen(project) ==
    IF project.err
    THEN [enabled |-> FALSE, severity |-> SevUnknown]
    ELSE [enabled  |-> project.PreventVulnerableImagesFromRunning,
          severity |-> ParseClairSev(project.PreventVulnerableImagesFromRunningSeverity)]

\* pmsPolicyChecker.vulnerablePolicy
pmsVulnerablePolicy(project) ==
    IF project.err
    THEN [enabled |-> TRUE, severity |-> SevUnknown]
    ELSE [enabled  |-> project.PreventVulnerableImagesFromRunning,
          severity |-> ParseClairSev(project.PreventVulnerableImagesFromRunningSeverity)]

\* getPolicyChecker(): which checker answers, and what it can read.
getPolicyChecker(withAdmiral) == IF withAdmiral THEN "pms" ELSE "env"

PolicyInputs(checker) == IF checker = "pms" THEN ProjectAnswers ELSE EnvSettings

contentTrustEnabled(checker, input) ==
    IF checker = "pms" THEN pmsContentTrustEnabled(input) ELSE envContentTrustEnabled(input)

vulnerablePolicy(checker, input) ==
    IF checker = "pms" THEN pmsVulnerablePolicy(input) ELSE envVulnerablePolicy(input)

(***************************************************************************)
(* The trust subsystem (notary.GetInternalTargets, notary.DigestFromTarget)*)
(***************************************************************************)
TagV1 == <<"v", "1">>

TagV2 == <<"v", "2">>

TargetTags == {TagV1, TagV2}

\* The hashes of a target: <<algorithm, hex>> pairs.
TargetHashes == {{<<"sha256", "d1">>}, {<<"sha256", "d2">>}, {<<"sha512", "d1">>}}

Targets == [Tag : TargetTags, Hashes : TargetHashes]

\* Lists of at most MaxTargets targets; a target name occurs once in a list.
TargetLists ==
    UNION {{l \in [1..n -> Targets] :
              \A i, j \in 1..n : i # j => l[i].Tag # l[j].Tag} : n \in 0..MaxTargets}

\* What notary.GetInternalTargets can return.
NotaryAnswers ==
    {[err |-> TRUE, targets |-> <<>>]} \cup {[err |-> FALSE, targets |-> l] : l \in TargetLists}

\* notary.DigestFromTarget
DigestFromTarget(t) ==
    IF \E h \in t.Hashes : h[1] = "sha256"
    THEN [err |-> FALSE, d |-> "sha256:" \o (CHOOSE h \in t.Hashes : h[1] = "sha256")[2]]
    ELSE [err |-> TRUE, d |-> ""]

\* The loop of matchNotaryDigest over targets[i..].
RECURSIVE matchTargets(_, _, _)
matchTargets(targets, i, image) ==
    IF i > Len(targets) THEN [match |-> FALSE, err |-> FALSE]
    ELSE IF targets[i].Tag = image.tag
         THEN LET r == DigestFromTarget(targets[i])
              IN  IF r.err THEN [match |-> FALSE, err |-> TRUE]
                  ELSE [match |-> image.digest = r.d, err |-> FALSE]
         ELSE matchTargets(targets, i + 1, image)

\* matchNotaryDigest that is content with a target of the image's tag.
matchNotaryDigestTagOnly(image, answer) ==
    IF answer.err THEN [match |-> FALSE, err |-> TRUE]
    ELSE [match |-> \E i \in 1..Len(answer.targets) : answer.targets[i].Tag = image.tag,
          err   |-> FALSE]

\* matchNotaryDigest(img), given what notary.GetInternalTargets returned.
matchNotaryDigest(image, answer) ==
    IF answer.err THEN [match |-> FALSE, err |-> TRUE]
    ELSE matchTargets(answer.targets, 1, image)

(***************************************************************************)
(* The vulnerability store (dao.GetImgScanOverview).                       *)
(***************************************************************************)
OverviewSevs == {SevUnknown, SevLow, SevMedium, SevHigh}

\* An error, no overview on record (nil), or an overview with a severity.
OverviewAnswers ==
    {[err |-> TRUE, found |-> FALSE, Sev |-> 0], [err |-> FALSE, found |-> FALSE, Sev |-> 0]}
    \cup {[err |-> FALSE, found |-> TRUE, Sev |-> v] : v \in OverviewSevs}

(***************************************************************************)
(* What each handler decides.  A verdict either passes the request on      *)
(* (next) or ends it with http.Error(rw, error, code).                     *)
(***************************************************************************)
Continue == [next |-> TRUE, code |-> 0, error |-> RawChunk("")]

\* A stage that writes its error and calls the next handler all the same.
TerminateNoReturn(code, error) == [next |-> TRUE, code |-> code, error |-> error]

\* http.Error(rw, error, code) followed by return.
Terminate(code, error) == [next |-> FALSE, code |-> code, error |-> error]

\* The test of the components off by one.
BadRepositoryOffByOne(components) == Len(components) < 1

\* urlHandler.ServeHTTP: len(components) < 2
BadRepository(components) == Len(components) < 2

\* A recorder made only while rec is nil, and shared from then on.
newRecorderOnce(old, r) == IF old = 0 THEN r ELSE old

\* urlHandler.ServeHTTP: rec = httptest.NewRecorder(); the pointer rec holds
\* afterwards, whatever it held before, is the recorder request r just made.
newRecorderPointer(old, r) == r

\* A stage that goes on to query although its global toggle is off.
stageSkippedIgnoringToggle(image, toggle) == ~image.present

\* contentTrustHandler.ServeHTTP, vulnerableHandler.ServeHTTP:
\* imgRaw == nil || !config.WithNotary() (or WithClair()).
stageSkipped(image, toggle) == ~image.present \/ ~toggle

\* A funnel that never finds an image in the context.
hasImageNever(image) == FALSE

\* funnelHandler.ServeHTTP: imgRaw != nil
hasImage(image) == image.present

\* urlHandler.ServeHTTP: the error for a repository without a project.
badRepositoryVerdict(repository) ==
    Terminate(StatusBadRequest,
              marshalError(<<"Bad repository name: ">> \o repository,
                           StatusInternalServerError))

\* contentTrustHandler.ServeHTTP after matchNotaryDigest returned m.
contentTrustVerdict(m) ==
    IF m.err
    THEN Terminate(StatusInternalServerError,
                   marshalError(<<"Failed in communication with Notary please check the log">>,
                                StatusInternalServerError))
    ELSE IF ~m.match
    THEN Terminate(StatusPreconditionFailed,
                   marshalError(<<"The image is not signed in Notary.">>,
                                StatusPreconditionFailed))
    ELSE Continue

\* The comparison with > in place of >=.
severityAbove(imageSev, projectVulnerableSeverity) ==
    imageSev > projectVulnerableSeverity

\* vulnerableHandler.ServeHTTP: imageSev >= int(projectVulnerableSeverity)
severityAtOrAbove(imageSev, projectVulnerableSeverity) ==
    imageSev >= projectVulnerableSeverity

\* vulnerableHandler.ServeHTTP letting an image without an overview through.
vulnerableVerdictFailOpen(overview, projectVulnerableSeverity) ==
    IF overview.err
    THEN Terminate(StatusPreconditionFailed,
                   marshalError(<<"Failed to get ImgScanOverview.">>, StatusPreconditionFailed))
    ELSE IF ~overview.found
    THEN Continue
    ELSE IF severityAtOrAbove(overview.Sev, projectVulnerableSeverity)
    THEN Terminate(StatusPreconditionFailed,
                   marshalError(<<"The severity of vulnerability of the image: ",
                                  SeverityString(overview.Sev),
                                  " is equal or higher than the threshold in project setting: ",
                                  SeverityString(projectVulnerableSeverity), ".">>,
                                StatusPreconditionFailed))
    ELSE Continue

\* vulnerableHandler.ServeHTTP after dao.GetImgScanOverview returned overview.
vulnerableVerdict(overview, projectVulnerableSeverity) ==
    IF overview.err
    THEN Terminate(StatusPreconditionFailed,
                   marshalError(<<"Failed to get ImgScanOverview.">>, StatusPreconditionFailed))
    ELSE IF ~overview.found
    THEN Terminate(StatusPreconditionFailed,
                   marshalError(<<"Cannot get the image scan overview info.">>,
                                StatusPreconditionFailed))
    ELSE IF severityAtOrAbove(overview.Sev, projectVulnerableSeverity)
    THEN Terminate(StatusPreconditionFailed,
                   marshalError(<<"The severity of vulnerability of the image: ",
                                  SeverityString(overview.Sev),
                                  " is equal or higher than the threshold in project setting: ",
                                  SeverityString(projectVulnerableSeverity), ".">>,
                                StatusPreconditionFailed))
    ELSE Continue

(***************************************************************************)
(* Requests.                                                               *)
(***************************************************************************)
\* /registryproxy/v2/proj/repo/manifests/v1
PathPull ==
    <<"/", "r", "e", "g", "i", "s", "t", "r", "y", "p", "r", "o", "x", "y",
      "/", "v", "2", "/", "p", "r", "o", "j", "/", "r", "e", "p", "o", "/",
      "m", "a", "n", "i", "f", "e", "s", "t", "s", "/", "v", "1">>

\* /registryproxy/v2/singletoken/manifests/latest
PathSingle ==
    <<"/", "r", "e", "g", "i", "s", "t", "r", "y", "p", "r", "o", "x", "y",
      "/", "v", "2", "/", "s", "i", "n", "g", "l", "e", "t", "o", "k", "e", "n", "/",
      "m", "a", "n", "i", "f", "e", "s", "t", "s", "/", "l", "a", "t", "e", "s", "t">>

\* /registryproxy/v2/proj/repo/tags/list
PathTags ==
    <<"/", "r", "e", "g", "i", "s", "t", "r", "y", "p", "r", "o", "x", "y",
      "/", "v", "2", "/", "p", "r", "o", "j", "/", "r", "e", "p", "o", "/",
      "t", "a", "g", "s", "/", "l", "i", "s", "t">>

\* The requests a client sends in the model.
SampleRequests ==
    {[Method |-> "GET", Path |-> PathPull],
     [Method |-> "GET", Path |-> PathSingle],
     [Method |-> "PUT", Path |-> PathPull],
     [Method |-> "GET", Path |-> PathTags]}

NoReq == [Method |-> "", Path |-> <<>>]

NoMatch == [flag |-> FALSE, repository |-> <<>>, tag |-> <<>>]

\* No value under imageInfoCtxKey in the request's context.
NoImg ==
    [present |-> FALSE, repository |-> <<>>, tag |-> <<>>, projectName |-> <<>>, digest |-> ""]

\* The ResponseWriter a handler writes to: the client's, or a recorder.
ClientWriter == 0

(***************************************************************************)
(* State.                                                                  *)
(***************************************************************************)
VARIABLES
    config,      \* config.WithNotary(), config.WithClair(), config.WithAdmiral()
    rec,         \* the package-level `rec`: the recorder it points to, 0 for nil
    recorders,   \* recorders[i]: the httptest.ResponseRecorder that request i created
    pc,          \* pc[r]: where request r's goroutine is
    req,         \* req[r]: the request, its path trimmed of the proxy prefix
    match,       \* match[r]: flag, repository, tag of MatchPullManifest(req)
    w,           \* w[r]: the writer the chain below urlHandler was called with
    img,         \* img[r]: the imageInfo in the context of the request
    client,      \* client[r]: what the client's ResponseWriter has received
    backendOut,  \* backendOut[r]: the response the backend produced for r
    trace,       \* trace[r]: what the handlers did for r, in order
    world,       \* the external state: free to change between any two queries,
                 \* or fixed (one backend answer, one set of settings, targets
                 \* and overview for every query)
    probe,       \* a request handed to MatchPullManifest on its own, and the result
    ctObs,       \* ctObs[r]: whether the trust subsystem answered for r, and with
                 \* a target that has the image's tag and digest
    vhObs        \* vhObs[r]: the threshold and what the vulnerability store answered

vars ==
    <<config, rec, recorders, pc, req, match, w, img, client, backendOut, trace, ctObs, vhObs,
      world, probe>>

\* The variables no handler writes.
frame == <<world, probe>>

\* Is there a target whose tag and digest are those of the image?
HasSignedTarget(targets, image) ==
    \E i \in 1..Len(targets) :
        /\ targets[i].Tag = image.tag
        /\ DigestFromTarget(targets[i]) = [err |-> FALSE, d |-> image.digest]

\* Did the trust subsystem answer, with a usable digest for the image's tag?
TrustAnswered(answer, image) ==
    /\ ~answer.err
    /\ \A i \in 1..Len(answer.targets) :
          answer.targets[i].Tag = image.tag => ~DigestFromTarget(answer.targets[i]).err

NoCtObs == [ran |-> FALSE, answered |-> FALSE, signed |-> FALSE]

NoVhObs == [ran |-> FALSE, overview |-> [err |-> FALSE, found |-> FALSE, Sev |-> 0], severity |-> 0]

\* An external state that may answer every query differently.
FreeWorld ==
    [fixed    |-> FALSE,
     backend  |-> NoBackendResp,
     policy   |-> [PROJECT_CONTENT_TRUST |-> "", PROJECT_VULNERABLE |-> "", PROJECT_SEVERITY |-> ""],
     notary   |-> [err |-> FALSE, targets |-> <<>>],
     overview |-> [err |-> FALSE, found |-> FALSE, Sev |-> 0]]

NoProbe == [applied |-> FALSE, request |-> NoReq, result |-> NoMatch]

\* What the backend, the policy checker's source, the trust subsystem and
\* the vulnerability store can answer to a query made now.
BackendNow == IF world.fixed THEN {world.backend} ELSE BackendResponses

PolicyNow ==
    IF world.fixed THEN {world.policy} ELSE PolicyInputs(getPolicyChecker(config.admiral))

NotaryNow == IF world.fixed THEN {world.notary} ELSE NotaryAnswers

OverviewNow == IF world.fixed THEN {world.overview} ELSE OverviewAnswers

\* pc.pm.Get returned an error to the checker.
LookupFailed(checker, input) == checker = "pms" /\ input.err

\* The events of one query of the policy checker by a stage.
PolicyEvents(stage, checker, input) ==
    IF LookupFailed(checker, input)
    THEN <<stage \o ":policy", stage \o ":lookuperr">>
    ELSE <<stage \o ":policy">>

Init ==
    /\ world = FreeWorld
    /\ probe = NoProbe
    /\ config \in [notary : BOOLEAN, clair : BOOLEAN, admiral : BOOLEAN]
    /\ rec = 0
    /\ recorders = [i \in Reqs |-> NewRecorder]
    /\ pc = [r \in Reqs |-> "idle"]
    /\ req = [r \in Reqs |-> NoReq]
    /\ match = [r \in Reqs |-> NoMatch]
    /\ w = [r \in Reqs |-> ClientWriter]
    /\ img = [r \in Reqs |-> NoImg]
    /\ client = [r \in Reqs |-> NoResp]
    /\ backendOut = [r \in Reqs |-> NoBackendResp]
    /\ trace = [r \in Reqs |-> <<>>]
    /\ ctObs = [r \in Reqs |-> NoCtObs]
    /\ vhObs = [r \in Reqs |-> NoVhObs]

Log(r, events) == trace' = [trace EXCEPT ![r] = @ \o events]

Goto(r, label) == pc' = [pc EXCEPT ![r] = label]

\* http.Error on the writer of the current pass; only the client's writer
\* ever carries an image, so errors always go to the client.
Respond(r, verdict) ==
    client' = [client EXCEPT ![r] = HttpError(@, verdict.error, verdict.code)]

(***************************************************************************)
(* urlHandler.ServeHTTP, lines 124-134: trim the prefix, match, reject a   *)
(* repository without a project, else point rec at a new recorder.         *)
(***************************************************************************)
UrlHandlerMatch(r) ==
    /\ pc[r] = "idle"
    /\ \E q \in SampleRequests :
         LET request    == [q EXCEPT !.Path = TrimPrefix(q.Path, RegistryProxyPrefix)]
             m          == MatchPullManifest(request)
             components == SplitN2(m.repository)
         IN  /\ req' = [req EXCEPT ![r] = request]
             /\ match' = [match EXCEPT ![r] = m]
             /\ IF m.flag
                THEN IF BadRepository(components)
                     THEN /\ Respond(r, badRepositoryVerdict(m.repository))
                          /\ Goto(r, "done")
                          /\ Log(r, <<"uh:match", "uh:badrepo">>)
                          /\ UNCHANGED <<rec, recorders>>
                     ELSE /\ rec' = newRecorderPointer(rec, r)
                          /\ recorders' = [recorders EXCEPT ![r] = NewRecorder]
                          /\ Goto(r, "uh_forward")
                          /\ Log(r, <<"uh:match", "uh:newrec">>)
                          /\ UNCHANGED client
                ELSE /\ Goto(r, "cth")
                     /\ Log(r, <<"uh:nomatch">>)
                     /\ UNCHANGED <<rec, recorders, client>>
    /\ UNCHANGED <<config, w, img, backendOut, ctObs, vhObs, world, probe>>

\* Line 135: uh.next.ServeHTTP(rec, req) reads rec and calls the chain with it.
UrlHandlerForward(r) ==
    /\ pc[r] = "uh_forward"
    /\ w' = [w EXCEPT ![r] = rec]
    /\ Goto(r, "cth")
    /\ Log(r, <<"uh:forward">>)
    /\ UNCHANGED <<config, rec, recorders, req, match, img, client, backendOut, ctObs, vhObs, world, probe>>

\* Line 136: rec.Result().StatusCode != http.StatusOK
UrlHandlerStatus(r) ==
    /\ pc[r] = "uh_status"
    /\ IF ResultStatusCode(recorders[rec]) # StatusOK
       THEN Goto(r, "uh_copy") /\ Log(r, <<"uh:non200">>)
       ELSE Goto(r, "uh_digest") /\ Log(r, <<"uh:200">>)
    /\ UNCHANGED <<config, rec, recorders, req, match, w, img, client, backendOut, ctObs, vhObs, world, probe>>

\* Lines 137-138: copyResp(rec, rw); return
UrlHandlerCopy(r) ==
    /\ pc[r] = "uh_copy"
    /\ client' = [client EXCEPT ![r] = copyResp(recorders[rec], @)]
    /\ Goto(r, "done")
    /\ Log(r, <<"uh:copy">>)
    /\ UNCHANGED <<config, rec, recorders, req, match, w, img, backendOut, ctObs, vhObs, world, probe>>

\* Lines 140-151: read the digest header of rec, put the imageInfo in the
\* context and call the chain with the client's writer.
UrlHandlerDigest(r) ==
    /\ pc[r] = "uh_digest"
    /\ img' = [img EXCEPT ![r] =
                 [present     |-> TRUE,
                  repository  |-> match[r].repository,
                  tag         |-> match[r].tag,
                  projectName |-> SplitN2(match[r].repository)[1],
                  digest      |-> HeaderGet(recorders[rec].HeaderMap, DigestHeader)]]
    /\ w' = [w EXCEPT ![r] = ClientWriter]
    /\ Goto(r, "cth")
    /\ Log(r, <<"uh:img">>)
    /\ UNCHANGED <<config, rec, recorders, req, match, client, backendOut, ctObs, vhObs, world, probe>>

(***************************************************************************)
(* contentTrustHandler.ServeHTTP, lines 158-180.                           *)
(***************************************************************************)
ContentTrustHandler(r) ==
    /\ pc[r] = "cth"
    /\ IF stageSkipped(img[r], config.notary)
       THEN /\ Goto(r, "vh")
            /\ Log(r, IF ~img[r].present THEN <<"cth:noimg">> ELSE <<"cth:disabled">>)
            /\ UNCHANGED <<client, ctObs>>
       ELSE \E input \in PolicyNow :
              IF ~contentTrustEnabled(getPolicyChecker(config.admiral), input)
              THEN /\ Goto(r, "vh")
                   /\ Log(r, PolicyEvents("cth", getPolicyChecker(config.admiral), input)
                              \o <<"cth:off">>)
                   /\ UNCHANGED <<client, ctObs>>
              ELSE \E answer \in NotaryNow :
                     LET verdict == contentTrustVerdict(matchNotaryDigest(img[r], answer))
                     IN  /\ ctObs' = [ctObs EXCEPT ![r] =
                                         [ran      |-> TRUE,
                                          answered |-> TrustAnswered(answer, img[r]),
                                          signed   |-> HasSignedTarget(answer.targets, img[r])]]
                         /\ IF verdict.next
                            THEN /\ Goto(r, "vh")
                                 /\ Log(r, PolicyEvents("cth", getPolicyChecker(config.admiral), input)
                                            \o <<"cth:notary", "cth:pass">>)
                                 /\ UNCHANGED client
                            ELSE /\ Respond(r, verdict)
                                 /\ Goto(r, "done")
                                 /\ Log(r, PolicyEvents("cth", getPolicyChecker(config.admiral), input)
                                            \o <<"cth:notary", "cth:end">>)
    /\ UNCHANGED <<config, rec, recorders, req, match, w, img, backendOut, vhObs, world, probe>>

(***************************************************************************)
(* vulnerableHandler.ServeHTTP, lines 186-217.                             *)
(***************************************************************************)
VulnerableHandler(r) ==
    /\ pc[r] = "vh"
    /\ IF stageSkipped(img[r], config.clair)
       THEN /\ Goto(r, "fu")
            /\ Log(r, IF ~img[r].present THEN <<"vh:noimg">> ELSE <<"vh:disabled">>)
            /\ UNCHANGED <<client, vhObs>>
       ELSE \E input \in PolicyNow :
              LET policy == vulnerablePolicy(getPolicyChecker(config.admiral), input)
              IN  IF ~policy.enabled
                  THEN /\ Goto(r, "fu")
                       /\ Log(r, PolicyEvents("vh", getPolicyChecker(config.admiral), input)
                                  \o <<"vh:off">>)
                       /\ UNCHANGED <<client, vhObs>>
                  ELSE \E overview \in OverviewNow :
                         LET verdict == vulnerableVerdict(overview, policy.severity)
                         IN  /\ vhObs' = [vhObs EXCEPT ![r] =
                                            [ran      |-> TRUE,
                                             overview |-> overview,
                                             severity |-> policy.severity]]
                             /\ IF verdict.next
                                THEN /\ Goto(r, "fu")
                                     /\ Log(r, PolicyEvents("vh", getPolicyChecker(config.admiral),
                                                             input)
                                                \o <<"vh:clair", "vh:pass">>)
                                     /\ UNCHANGED client
                                ELSE /\ Respond(r, verdict)
                                     /\ Goto(r, "done")
                                     /\ Log(r, PolicyEvents("vh", getPolicyChecker(config.admiral),
                                                             input)
                                                \o <<"vh:clair", "vh:end">>)
    /\ UNCHANGED <<config, rec, recorders, req, match, w, img, backendOut, ctObs, world, probe>>

(***************************************************************************)
(* funnelHandler.ServeHTTP, lines 223-231: replay what rec points to when  *)
(* the context carries an image, else call the backend, which sets its     *)
(* headers and status on the writer it was given.                          *)
(***************************************************************************)
FunnelHandler(r) ==
    /\ pc[r] = "fu"
    /\ IF hasImage(img[r])
       THEN /\ client' = [client EXCEPT ![r] = copyResp(recorders[rec], @)]
            /\ Goto(r, "done")
            /\ Log(r, <<"fu:replay">>)
            /\ UNCHANGED <<recorders, backendOut>>
       ELSE \E resp \in BackendNow :
              /\ backendOut' = [backendOut EXCEPT ![r] = resp]
              /\ IF w[r] = ClientWriter
                 THEN /\ client' = [client EXCEPT ![r] = ClientWriteHeader(@, resp)]
                      /\ UNCHANGED recorders
                 ELSE /\ recorders' = [recorders EXCEPT ![w[r]] = RecorderWriteHeader(@, resp)]
                      /\ UNCHANGED client
              /\ Goto(r, "backend")
              /\ Log(r, <<"fu:backend">>)
    /\ UNCHANGED <<config, rec, req, match, w, img, ctObs, vhObs, world, probe>>

\* The backend writes its body and returns; control goes back to line 136 of
\* urlHandler when the writer was a recorder, and the request is over when
\* it was the client's.
BackendWrite(r) ==
    /\ pc[r] = "backend"
    /\ IF w[r] = ClientWriter
       THEN /\ client' = [client EXCEPT ![r] = ClientWrite(@, backendOut[r])]
            /\ Goto(r, "done")
            /\ UNCHANGED recorders
       ELSE /\ recorders' = [recorders EXCEPT ![w[r]] = RecorderWrite(@, backendOut[r])]
            /\ Goto(r, "uh_status")
            /\ UNCHANGED client
    /\ Log(r, <<"be:body">>)
    /\ UNCHANGED <<config, rec, req, match, w, img, backendOut, ctObs, vhObs, world, probe>>

Next ==
    \E r \in Reqs :
        \/ UrlHandlerMatch(r)
        \/ UrlHandlerForward(r)
        \/ ContentTrustHandler(r)
        \/ VulnerableHandler(r)
        \/ FunnelHandler(r)
        \/ BackendWrite(r)
        \/ UrlHandlerStatus(r)
        \/ UrlHandlerCopy(r)
        \/ UrlHandlerDigest(r)

Spec == Init /\ [][Next]_vars

\* The same handlers when requests do not overlap: a request starts only
\* when no other request is between its first and its last step.
SerialNext ==
    \E r \in Reqs :
        /\ \A q \in Reqs \ {r} : pc[q] \in {"idle", "done"}
        /\ \/ UrlHandlerMatch(r)
           \/ UrlHandlerForward(r)
           \/ ContentTrustHandler(r)
           \/ VulnerableHandler(r)
           \/ FunnelHandler(r)
           \/ BackendWrite(r)
           \/ UrlHandlerStatus(r)
           \/ UrlHandlerCopy(r)
           \/ UrlHandlerDigest(r)

SerialSpec == Init /\ [][SerialNext]_vars

(***************************************************************************)
(* Repeated requests against an external state that does not change: the   *)
(* backend, the settings, the signed targets and the overview are chosen   *)
(* once, the requests run one after the other, and every request after the *)
(* first repeats the first.                                                *)
(***************************************************************************)
\* Answers of the trust subsystem in a fixed external state.
FixedNotaryAnswers ==
    {a \in NotaryAnswers : Len(a.targets) <= 1}

FixedWorlds(withAdmiral) ==
    [fixed    : {TRUE},
     backend  : BackendResponses,
     policy   : PolicyInputs(getPolicyChecker(withAdmiral)),
     notary   : FixedNotaryAnswers,
     overview : OverviewAnswers]

IdemInit ==
    /\ config \in [notary : BOOLEAN, clair : BOOLEAN, admiral : BOOLEAN]
    /\ world \in FixedWorlds(config.admiral)
    /\ probe = NoProbe
    /\ rec = 0
    /\ recorders = [i \in Reqs |-> NewRecorder]
    /\ pc = [r \in Reqs |-> "idle"]
    /\ req = [r \in Reqs |-> NoReq]
    /\ match = [r \in Reqs |-> NoMatch]
    /\ w = [r \in Reqs |-> ClientWriter]
    /\ img = [r \in Reqs |-> NoImg]
    /\ client = [r \in Reqs |-> NoResp]
    /\ backendOut = [r \in Reqs |-> NoBackendResp]
    /\ trace = [r \in Reqs |-> <<>>]
    /\ ctObs = [r \in Reqs |-> NoCtObs]
    /\ vhObs = [r \in Reqs |-> NoVhObs]

IdemNext ==
    \E r \in Reqs :
        /\ \A q \in Reqs : q < r => pc[q] = "done"
        /\ \/ UrlHandlerMatch(r) /\ (r > 1 => req'[r] = req[1])
           \/ UrlHandlerForward(r)
           \/ ContentTrustHandler(r)
           \/ VulnerableHandler(r)
           \/ FunnelHandler(r)
           \/ BackendWrite(r)
           \/ UrlHandlerStatus(r)
           \/ UrlHandlerCopy(r)
           \/ UrlHandlerDigest(r)

IdemSpec == IdemInit /\ [][IdemNext]_vars

(***************************************************************************)
(* MatchPullManifest on its own: a request is built from a method and the  *)
(* parts of a path, and the function is applied to it once.                *)
(***************************************************************************)
MatchMethods == {"GET", "PUT", "HEAD"}

MatchPrefixes == {V2Prefix, <<"/", "v", "1", "/">>, <<"v", "2", "/">>}

MatchRepositories ==
    {<<"p", "r", "o", "j", "/", "r", "e", "p", "o", "/">>,
     <<"l", "i", "b", "/">>,
     <<"a", ".", "b", "/", "c", "_", "d", "/">>,
     <<"a", ".", ".", "b", "/">>,
     <<"P", "/">>,
     <<>>}

MatchInfixes == {ManifestsInfix, <<"t", "a", "g", "s", "/">>}

\* A reference of n characters.
LongRef(n) == [i \in 1..n |-> "a"]

MatchReferences ==
    {<<"v", "1">>,
     <<"s", "h", "a", "2", "5", "6", ":", "d", "1">>,
     <<".", "v">>,
     <<>>,
     LongRef(MaxRefTail + 1),
     LongRef(MaxRefTail + 2)}

MatchTails == {<<>>, <<"/">>, <<"/", "x">>}

MatchRequests ==
    {[Method |-> m, Path |-> p \o s \o i \o t \o e] :
        m \in MatchMethods, p \in MatchPrefixes, s \in MatchRepositories,
        i \in MatchInfixes, t \in MatchReferences, e \in MatchTails}

MatchInit ==
    /\ probe \in [applied : {FALSE}, request : MatchRequests, result : {NoMatch}]
    /\ world = FreeWorld
    /\ config = [notary |-> FALSE, clair |-> FALSE, admiral |-> FALSE]
    /\ rec = 0
    /\ recorders = [i \in Reqs |-> NewRecorder]
    /\ pc = [r \in Reqs |-> "idle"]
    /\ req = [r \in Reqs |-> NoReq]
    /\ match = [r \in Reqs |-> NoMatch]
    /\ w = [r \in Reqs |-> ClientWriter]
    /\ img = [r \in Reqs |-> NoImg]
    /\ client = [r \in Reqs |-> NoResp]
    /\ backendOut = [r \in Reqs |-> NoBackendResp]
    /\ trace = [r \in Reqs |-> <<>>]
    /\ ctObs = [r \in Reqs |-> NoCtObs]
    /\ vhObs = [r \in Reqs |-> NoVhObs]

ApplyMatch ==
    /\ ~probe.applied
    /\ probe' = [probe EXCEPT !.applied = TRUE,
                              !.result = MatchPullManifest(probe.request)]
    /\ UNCHANGED <<config, rec, recorders, pc, req, match, w, img, client,
                   backendOut, trace, ctObs, vhObs, world>>

MatchNext == ApplyMatch

MatchSpec == MatchInit /\ [][MatchNext]_vars

(***************************************************************************)
(* External calls that never return.  The handlers make their calls        *)
(* synchronously and pass no deadline: a goroutine whose call does not     *)
(* return stays in the call.                                               *)
(***************************************************************************)
\* The external calls request r is about to make.
PendingCalls(r) ==
    {c \in {"backend", "policy", "notary", "clair"} :
        \/ /\ c = "backend"
           /\ pc[r] = "fu" /\ ~hasImage(img[r]) /\ w[r] # ClientWriter
        \/ /\ c = "policy"
           /\ getPolicyChecker(config.admiral) = "pms"
           /\ \/ pc[r] = "cth" /\ ~stageSkipped(img[r], config.notary)
              \/ pc[r] = "vh" /\ ~stageSkipped(img[r], config.clair)
        \/ /\ c = "notary"
           /\ pc[r] = "cth" /\ ~stageSkipped(img[r], config.notary)
           /\ \E input \in PolicyNow :
                 contentTrustEnabled(getPolicyChecker(config.admiral), input)
        \/ /\ c = "clair"
           /\ pc[r] = "vh" /\ ~stageSkipped(img[r], config.clair)
           /\ \E input \in PolicyNow :
                 vulnerablePolicy(getPolicyChecker(config.admiral), input).enabled}

ExternalCallHangs(r) ==
    /\ \E c \in PendingCalls(r) : Log(r, <<"hang:" \o c>>)
    /\ Goto(r, "blocked")
    /\ UNCHANGED <<config, rec, recorders, req, match, w, img, client, backendOut,
                   ctObs, vhObs, world, probe>>

\* The steps request r can take.
RequestStep(r) ==
    \/ UrlHandlerMatch(r)
    \/ UrlHandlerForward(r)
    \/ ContentTrustHandler(r)
    \/ VulnerableHandler(r)
    \/ FunnelHandler(r)
    \/ BackendWrite(r)
    \/ UrlHandlerStatus(r)
    \/ UrlHandlerCopy(r)
    \/ UrlHandlerDigest(r)
    \/ ExternalCallHangs(r)

HangNext ==
    \E r \in Reqs :
        /\ \A q \in Reqs \ {r} : pc[q] \in {"idle", "done", "blocked"}
        /\ RequestStep(r)

HangSpec == Init /\ [][HangNext]_vars

(***************************************************************************)
(* Vocabulary of the properties.                                           *)
(***************************************************************************)
Done(r) == pc[r] = "done"

Did(r, e) == \E i \in 1..Len(trace[r]) : trace[r][i] = e

Count(r, e) == Cardinality({i \in 1..Len(trace[r]) : trace[r][i] = e})

\* A GET whose path the pattern matches.
IsManifestPull(request) ==
    request.Method = "GET" /\ Len(FindStringSubmatch(request.Path)) = 3

\* A manifest pull whose repository path has no "/".
IsMalformedPull(request) ==
    /\ IsManifestPull(request)
    /\ IndexSlash(TrimSuffix(FindStringSubmatch(request.Path)[2], <<"/">>)) = 0

\* The policy provider, the trust subsystem or the vulnerability store was asked.
QueriedAny(r) ==
    Did(r, "cth:policy") \/ Did(r, "cth:notary") \/ Did(r, "vh:policy") \/ Did(r, "vh:clair")

\* The client received exactly this response, written once.
SameResponse(rw, resp) ==
    /\ rw.code = resp.code
    /\ rw.header = resp.header
    /\ rw.body = resp.body
    /\ rw.writes = 1

\* The client received one JSON error with one of the codes, and nothing of
\* a backend response.
ErrorOnly(rw, codes) ==
    /\ rw.code \in codes
    /\ rw.writes = 1
    /\ Len(rw.body) = 1
    /\ rw.body[1].json
    /\ rw.header = {<<"Content-Type", "text/plain; charset=utf-8">>,
                    <<"X-Content-Type-Options", "nosniff">>}

\* The content-trust check of r passed or was skipped as disabled.
TrustPassed(r) == Did(r, "cth:disabled") \/ Did(r, "cth:off") \/ Did(r, "cth:pass")

\* The vulnerability check of r passed or was skipped as disabled.
VulnerabilityPassed(r) == Did(r, "vh:disabled") \/ Did(r, "vh:off") \/ Did(r, "vh:pass")

(***************************************************************************)
(* Properties.                                                             *)
(***************************************************************************)
\* C1: a finished manifest pull whose backend fetch returned 200 either had
\* both checks pass (or skipped as disabled), or its client received only a
\* 412 or 500 error and nothing of a buffered backend response.
C1_ReleaseOnlyAfterChecks ==
    \A r \in Reqs :
        (Done(r) /\ IsManifestPull(req[r]) /\ backendOut[r].code = StatusOK)
        => \/ TrustPassed(r) /\ VulnerabilityPassed(r)
           \/ ErrorOnly(client[r], {StatusPreconditionFailed, StatusInternalServerError})

\* C2: the response replayed to a request (at release or as a non-200
\* replay) is the response the backend produced for that request, and the
\* digest of its image descriptor is the digest header of that response.
C2_Isolation ==
    \A r \in Reqs :
        /\ (Done(r) /\ (Did(r, "uh:copy") \/ Did(r, "fu:replay")))
           => SameResponse(client[r], backendOut[r])
        /\ img[r].present
           => img[r].digest = HeaderGet(backendOut[r].header, DigestHeader)

\* C3: a manifest pull whose own backend response is not 200 gets no image
\* descriptor and no query of a policy collaborator, and when it is finished
\* its client has received that backend response unchanged.
C3_Non200Replayed ==
    \A r \in Reqs :
        (IsManifestPull(req[r]) /\ backendOut[r].code \notin {0, StatusOK})
        => /\ ~img[r].present
           /\ ~QueriedAny(r)
           /\ Done(r) => SameResponse(client[r], backendOut[r])

\* C4: a request that is not a manifest pull is handed to the backend once,
\* with the client's writer; no recorder and no image descriptor are made
\* for it, no policy collaborator is asked, and its client receives what
\* the backend answered.
C4_PassThrough ==
    \A r \in Reqs :
        (pc[r] # "idle" /\ ~IsManifestPull(req[r]))
        => /\ w[r] = ClientWriter
           /\ ~Did(r, "uh:newrec") /\ ~Did(r, "uh:forward")
           /\ recorders[r] = NewRecorder
           /\ ~img[r].present
           /\ ~QueriedAny(r)
           /\ Count(r, "fu:backend") <= 1
           /\ Done(r) => /\ Count(r, "fu:backend") = 1
                         /\ SameResponse(client[r], backendOut[r])

C4_Witness ==
    \E r, q \in Reqs :
        /\ Done(r) /\ req[r].Method = "PUT" /\ client[r].code = StatusOK
        /\ Done(q) /\ req[q].Method = "GET" /\ ~IsManifestPull(req[q])
        /\ client[q].code = StatusNotFound

\* C5: a manifest pull with backend status 200 that reached the release
\* stage hands its client the status, headers and body of its buffered
\* backend response, nothing added, removed or altered.
C5_ReleaseVerbatim ==
    \A r \in Reqs :
        (Done(r) /\ Did(r, "fu:replay") /\ backendOut[r].code = StatusOK)
        => SameResponse(client[r], backendOut[r])

\* C6: when content trust is enforced for a request and the trust subsystem
\* answers without error, the stage passes the request on exactly when a
\* signed target has the descriptor's tag and digest; otherwise the request
\* ends with 412 and the message that the image is not signed.
C6_SignedIffContinue ==
    \A r \in Reqs :
        (ctObs[r].ran /\ ctObs[r].answered)
        => /\ img[r].present /\ config.notary
           /\ IF ctObs[r].signed
              THEN Did(r, "cth:pass") /\ ~Did(r, "cth:end")
              ELSE /\ Did(r, "cth:end") /\ ~Did(r, "cth:pass")
                   /\ Done(r)
                   /\ ErrorOnly(client[r], {StatusPreconditionFailed})
                   /\ client[r].body[1].Message = <<"The image is not signed in Notary.">>

C6_Witness ==
    \E r, q \in Reqs :
        /\ ctObs[r].ran /\ ctObs[r].answered /\ ~ctObs[r].signed
        /\ client[r].code = StatusPreconditionFailed
        /\ ctObs[q].ran /\ ctObs[q].answered /\ ctObs[q].signed
        /\ Did(q, "cth:pass")

\* C7: when vulnerability enforcement applies and the store has an overview
\* for the descriptor's digest, the request ends with 412 exactly when the
\* overview's severity is at or above the tenant's threshold, and goes on
\* to release otherwise.
C7_DenyIffAtOrAbove ==
    \A r \in Reqs :
        (vhObs[r].ran /\ ~vhObs[r].overview.err /\ vhObs[r].overview.found)
        => /\ img[r].present /\ config.clair
           /\ IF vhObs[r].overview.Sev >= vhObs[r].severity
              THEN /\ Did(r, "vh:end") /\ ~Did(r, "vh:pass") /\ ~Did(r, "fu:replay")
                   /\ Done(r)
                   /\ ErrorOnly(client[r], {StatusPreconditionFailed})
              ELSE /\ Did(r, "vh:pass") /\ ~Did(r, "vh:end")
                   /\ pc[r] \in {"fu", "done"}
                   /\ Done(r) => Did(r, "fu:replay")

C7_Witness ==
    \E r, q \in Reqs :
        /\ vhObs[r].ran /\ vhObs[r].overview.found
        /\ vhObs[r].overview.Sev = vhObs[r].severity
        /\ Done(r) /\ client[r].code = StatusPreconditionFailed
        /\ vhObs[q].ran /\ vhObs[q].overview.found
        /\ vhObs[q].overview.Sev < vhObs[q].severity
        /\ Done(q) /\ Did(q, "fu:replay")

\* C8: an error of the trust subsystem ends the request with 500, an error
\* of the vulnerability store or a missing overview ends it with 412, and
\* in neither case is the buffered response released.
C8_CollaboratorFailures ==
    \A r \in Reqs :
        /\ (ctObs[r].ran /\ ~ctObs[r].answered)
           => /\ Done(r)
              /\ ErrorOnly(client[r], {StatusInternalServerError})
              /\ ~Did(r, "fu:replay")
        /\ (vhObs[r].ran /\ (vhObs[r].overview.err \/ ~vhObs[r].overview.found))
           => /\ Done(r)
              /\ ErrorOnly(client[r], {StatusPreconditionFailed})
              /\ ~Did(r, "fu:replay")

C8_Witness ==
    \E r, q \in Reqs :
        /\ ctObs[r].ran /\ ~ctObs[r].answered
        /\ client[r].code = StatusInternalServerError
        /\ vhObs[q].ran /\ ~vhObs[q].overview.err /\ ~vhObs[q].overview.found
        /\ client[q].code = StatusPreconditionFailed

\* C9: every error response of the chain carries a JSON error whose code is
\* the HTTP status of the response.
C9_ErrorCodeIsStatus ==
    \A r \in Reqs :
        Done(r)
        => \A i \in 1..Len(client[r].body) :
             client[r].body[i].json => client[r].body[i].Code = client[r].code

\* C10: a GET manifest pull whose repository path has fewer than two
\* segments is answered with 400; the backend is not called for it, no
\* response is buffered, no descriptor is made and no policy stage runs.
C10_MalformedRejected ==
    \A r \in Reqs :
        (pc[r] # "idle" /\ IsMalformedPull(req[r]))
        => /\ Done(r)
           /\ ErrorOnly(client[r], {StatusBadRequest})
           /\ trace[r] = <<"uh:match", "uh:badrepo">>
           /\ backendOut[r] = NoBackendResp
           /\ recorders[r] = NewRecorder
           /\ ~img[r].present

C10_Witness ==
    \E r \in Reqs :
        /\ Done(r) /\ IsMalformedPull(req[r])
        /\ client[r].code = StatusBadRequest
        /\ \E q \in Reqs : pc[q] \notin {"idle", "done"}

\* C11: with the tenant-store checker a failed lookup weakens nothing: the
\* content-trust stage goes on to ask the trust subsystem, the
\* vulnerability stage goes on to ask the store with the Unknown threshold,
\* and an image that has an overview, whatever its severity, is denied.
C11_LookupFailureFailsClosed ==
    \A r \in Reqs :
        /\ Did(r, "cth:lookuperr")
           => /\ config.admiral
              /\ ~Did(r, "cth:off") /\ Did(r, "cth:notary") /\ ctObs[r].ran
        /\ Did(r, "vh:lookuperr")
           => /\ config.admiral
              /\ ~Did(r, "vh:off") /\ Did(r, "vh:clair") /\ vhObs[r].ran
              /\ vhObs[r].severity = SevUnknown
              /\ (~vhObs[r].overview.err /\ vhObs[r].overview.found)
                 => /\ Done(r)
                    /\ ErrorOnly(client[r], {StatusPreconditionFailed})
                    /\ ~Did(r, "fu:replay")

C11_Witness ==
    \E r \in Reqs :
        /\ config.notary /\ config.clair
        /\ Did(r, "cth:lookuperr") /\ Did(r, "cth:pass")
        /\ Did(r, "vh:lookuperr")
        /\ vhObs[r].overview.found /\ vhObs[r].overview.Sev = SevUnknown
        /\ client[r].code = StatusPreconditionFailed

\* C12: against an unchanged external state, a request that repeats an
\* earlier, completed request gets the same decision and the same response
\* as that one; nothing an earlier request left behind changes it.
C12_RepeatIsIdentical ==
    \A r, q \in Reqs :
        (Done(r) /\ Done(q) /\ req[r] = req[q])
        => /\ trace[r] = trace[q]
           /\ client[r] = client[q]

C12_Witness ==
    \E r, q \in Reqs :
        /\ r < q /\ Done(r) /\ Done(q) /\ req[r] = req[q]
        /\ rec = q
        /\ client[r].code = StatusPreconditionFailed
        /\ client[q].code = StatusPreconditionFailed

(***************************************************************************)
(* The shape /v2/<segments>/manifests/<reference> of a whole path.         *)
(***************************************************************************)
\* One or more "/"-terminated tokens [a-z0-9]+([._-][a-z0-9]+)*.
IsSegments(s) ==
    /\ Len(s) > 0
    /\ s[1] \in AlnumChars
    /\ s[Len(s)] = "/"
    /\ \A i \in 1..Len(s) : s[i] \in AlnumChars \cup SepChars \cup {"/"}
    /\ \A i \in 2..Len(s) : s[i] \in SepChars \cup {"/"} => s[i - 1] \in AlnumChars
    /\ \A i \in 1..(Len(s) - 1) : s[i] \in SepChars => s[i + 1] \in AlnumChars

\* 1 to 128 characters, a word character first.
IsReference(t) ==
    /\ Len(t) >= 1
    /\ Len(t) <= MaxRefTail + 1
    /\ t[1] \in WordChars
    /\ \A i \in 2..Len(t) : t[i] \in RefChars

WholePathIsPull(path) ==
    /\ HasPrefixAt(path, 1, V2Prefix)
    /\ \E k \in (Len(V2Prefix) + 1)..Len(path) :
          /\ IsSegments(SubSeq(path, Len(V2Prefix) + 1, k - 1))
          /\ HasPrefixAt(path, k, ManifestsInfix)
          /\ IsReference(SubSeq(path, k + Len(ManifestsInfix), Len(path)))

\* C13: MatchPullManifest reports a manifest pull exactly for a GET request
\* whose whole path is /v2/<segments>/manifests/<reference>, the reference
\* 1 to 128 allowed characters long; on a match the repository it returns
\* is the segments of the path without the trailing slash.
C13_MatcherContract ==
    probe.applied =>
        LET q == probe.request
            m == probe.result
        IN  /\ m.flag <=> (q.Method = "GET" /\ WholePathIsPull(q.Path))
            /\ m.flag =>
                  /\ m.repository # <<>>
                  /\ m.repository[Len(m.repository)] # "/"
                  /\ q.Path = V2Prefix \o m.repository \o <<"/">> \o ManifestsInfix \o m.tag

\* Is the event at position i of r's trace followed by one of the events,
\* or, when it is the last one, is r at the label?
FollowedBy(r, i, events, label) ==
    IF i = Len(trace[r]) THEN pc[r] = label ELSE trace[r][i + 1] \in events

\* C14: a stage asks its collaborator only with a descriptor present, its
\* global toggle on and the tenant policy enabling it, and asks the policy
\* provider only with a descriptor present and the toggle on; a stage that
\* finds one of the three conditions failing hands the request to the next
\* stage, and does so without a policy query when the descriptor is absent
\* or the toggle is off.
C14_QueriesOnlyWhenEnabled ==
    \A r \in Reqs :
        /\ Did(r, "cth:policy") => img[r].present /\ config.notary
        /\ Did(r, "vh:policy") => img[r].present /\ config.clair
        /\ Did(r, "cth:notary")
           => img[r].present /\ config.notary /\ Did(r, "cth:policy") /\ ~Did(r, "cth:off")
        /\ Did(r, "vh:clair")
           => img[r].present /\ config.clair /\ Did(r, "vh:policy") /\ ~Did(r, "vh:off")
        /\ Did(r, "cth:disabled") => ~config.notary
        /\ Did(r, "vh:disabled") => ~config.clair
        /\ \A i \in 1..Len(trace[r]) :
              /\ trace[r][i] \in {"cth:noimg", "cth:disabled", "cth:off"}
                 => FollowedBy(r, i, {"vh:noimg", "vh:disabled", "vh:policy"}, "vh")
              /\ trace[r][i] \in {"vh:noimg", "vh:disabled", "vh:off"}
                 => FollowedBy(r, i, {"fu:backend", "fu:replay"}, "fu")
              /\ trace[r][i] \in {"cth:noimg", "cth:disabled", "vh:noimg", "vh:disabled"}
                 => i = 1 \/ trace[r][i - 1] \notin {"cth:policy", "cth:lookuperr",
                                                     "vh:policy", "vh:lookuperr"}
              /\ trace[r][i] \in {"cth:off", "vh:off"}
                 => i > 1 /\ trace[r][i - 1] \in {"cth:policy", "cth:lookuperr",
                                                  "vh:policy", "vh:lookuperr"}

C14_Witness ==
    \E r \in Reqs :
        /\ config.notary /\ config.clair /\ img[r].present
        /\ Did(r, "cth:noimg") /\ Did(r, "vh:noimg")
        /\ Did(r, "cth:off") /\ Did(r, "vh:off")
        /\ ~Did(r, "cth:notary") /\ ~Did(r, "vh:clair")
        /\ Did(r, "fu:replay")

\* Does every occurrence of one of the events `later` in r's trace come
\* after an occurrence of one of the events `earlier`?
Before(r, earlier, later) ==
    \A i \in 1..Len(trace[r]) :
        trace[r][i] \in later => \E j \in 1..(i - 1) : trace[r][j] \in earlier

\* The image failed the content-trust check the stage made for r.
TrustFailed(r) == ctObs[r].ran /\ ~(ctObs[r].answered /\ ctObs[r].signed)

\* The image failed the vulnerability check the stage made for r.
VulnerabilityFailed(r) ==
    /\ vhObs[r].ran
    /\ \/ vhObs[r].overview.err
       \/ ~vhObs[r].overview.found
       \/ vhObs[r].overview.Sev >= vhObs[r].severity

\* C15: within a request the stages run in the order buffer, content-trust
\* check, vulnerability check, release; the vulnerability store is asked
\* only after the content-trust stage continued; a content-trust denial or
\* failure ends the request, with no vulnerability stage and no release
\* after it; a vulnerability denial ends it with no release after it.
C15_StageOrder ==
    \A r \in Reqs :
        /\ Before(r, {"be:body"}, {"uh:200", "uh:non200"})
        /\ Before(r, {"uh:200"}, {"uh:img"})
        /\ Before(r, {"uh:img"}, {"cth:disabled", "cth:policy", "cth:notary"})
        /\ Before(r, {"cth:disabled", "cth:off", "cth:pass"},
                     {"vh:disabled", "vh:policy", "vh:clair"})
        /\ Before(r, {"vh:disabled", "vh:off", "vh:pass"}, {"fu:replay"})
        /\ (TrustFailed(r) \/ Did(r, "cth:end"))
           => /\ Done(r)
              /\ trace[r][Len(trace[r])] = "cth:end"
              /\ ~Did(r, "vh:disabled") /\ ~Did(r, "vh:policy") /\ ~Did(r, "vh:clair")
              /\ ~Did(r, "fu:replay")
        /\ (VulnerabilityFailed(r) \/ Did(r, "vh:end"))
           => /\ Done(r)
              /\ trace[r][Len(trace[r])] = "vh:end"
              /\ ~Did(r, "fu:replay")

C15_Witness ==
    \E r, q \in Reqs :
        /\ TrustFailed(r) /\ Done(r)
        /\ Did(q, "cth:pass") /\ VulnerabilityFailed(q) /\ Done(q)

\* C16: the backend is called at most once for a request, and exactly once
\* for a finished request that is unmatched or matched and well-formed,
\* whatever the stages decided; once the descriptor exists the request ends
\* at the release or at a denial and the backend is not called again.
C16_BackendOnce ==
    \A r \in Reqs :
        /\ Count(r, "fu:backend") <= 1
        /\ Count(r, "be:body") <= 1
        /\ (Done(r) /\ ~IsMalformedPull(req[r]))
           => Count(r, "fu:backend") = 1 /\ Count(r, "be:body") = 1
        /\ \A i \in 1..Len(trace[r]) :
              trace[r][i] = "uh:img"
              => \A j \in (i + 1)..Len(trace[r]) : trace[r][j] \notin {"fu:backend", "be:body"}
        /\ (Done(r) /\ Did(r, "uh:img"))
           => trace[r][Len(trace[r])] \in {"fu:replay", "cth:end", "vh:end"}

C16_Witness ==
    \E r, q \in Reqs :
        /\ Done(r) /\ IsManifestPull(req[r]) /\ ~IsMalformedPull(req[r])
        /\ Did(r, "vh:end") /\ Count(r, "fu:backend") = 1
        /\ Done(q) /\ ~IsManifestPull(req[q]) /\ Count(q, "fu:backend") = 1

\* C17: a request has an image descriptor only if it matched the pattern,
\* its repository path has at least two segments and the backend's answer
\* to it, which was buffered, had status 200; the descriptor is made once,
\* from the match, with the first segment as its tenant name.
C17_DescriptorOnlyAfter200 ==
    \A r \in Reqs :
        /\ Count(r, "uh:img") <= 1
        /\ img[r].present <=> Did(r, "uh:img")
        /\ img[r].present
           => /\ IsManifestPull(req[r])
              /\ ~IsMalformedPull(req[r])
              /\ img[r].repository = match[r].repository
              /\ img[r].tag = match[r].tag
              /\ Len(SplitN2(img[r].repository)) = 2
              /\ img[r].projectName = SplitN2(img[r].repository)[1]
              /\ Did(r, "be:body")
              /\ backendOut[r].code = StatusOK

\* C18: whatever the interleaving, what the release stage replays to a
\* request is the buffered response the stages evaluated for it: it has the
\* status 200 that was tested and the digest header that was put in the
\* descriptor; and a manifest pull whose client received a 200 has a
\* descriptor with the digest the client received.
C18_ReplayedIsEvaluated ==
    \A r \in Reqs :
        /\ (Done(r) /\ Did(r, "fu:replay"))
           => /\ client[r].code = StatusOK
              /\ HeaderGet(client[r].header, DigestHeader) = img[r].digest
        /\ (Done(r) /\ IsManifestPull(req[r]) /\ client[r].code = StatusOK)
           => /\ img[r].present
              /\ HeaderGet(client[r].header, DigestHeader) = img[r].digest

\* The kinds of response a finished request r has given its client.
ResponseKinds(r) ==
    {k \in {"live", "malformed", "non200", "policy", "released"} :
        \/ k = "live" /\ ~IsManifestPull(req[r]) /\ Did(r, "be:body")
                      /\ SameResponse(client[r], backendOut[r])
        \/ k = "malformed" /\ Did(r, "uh:badrepo")
                           /\ ErrorOnly(client[r], {StatusBadRequest})
        \/ k = "non200" /\ Did(r, "uh:copy") /\ client[r].code # StatusOK
        \/ k = "policy" /\ (Did(r, "cth:end") \/ Did(r, "vh:end"))
                        /\ ErrorOnly(client[r], {StatusPreconditionFailed,
                                                 StatusInternalServerError})
        \/ k = "released" /\ Did(r, "fu:replay") /\ client[r].code = StatusOK}

\* C19: a request writes at most one response to its client, and a finished
\* request has written exactly one, which is exactly one of: the backend's
\* live response to an unmatched request, the 400 error, the replayed
\* non-200 buffered response, a 412 or 500 policy error, the replayed 200
\* buffered response.
C19_ExactlyOneResponse ==
    \A r \in Reqs :
        /\ client[r].writes <= 1
        /\ Done(r) => /\ client[r].writes = 1
                      /\ Cardinality(ResponseKinds(r)) = 1

\* C20: a matched request that has started and not finished can always
\* take a further step, also when an external call it made does not return:
\* a timeout ends the call and the request goes on to a Fail outcome.
C20_NoRequestBlocksForever ==
    \A r \in Reqs :
        (IsManifestPull(req[r]) /\ pc[r] \notin {"idle", "done"})
        => ENABLED RequestStep(r)

====
